---- MODULE Spec2Model ----
(***************************************************************************)
(* Model of the pdf-redactor backend: the assignment reconciler            *)
(* (_validate_classification), the classification call (classify_blocks,   *)
(* _strip_json_from_response) and the HTTP endpoints that read and write   *)
(* the in-memory document store (upload, classify, redact, extract), the   *)
(* row expansion of extract_contract_data and the spreadsheet append.      *)
(***************************************************************************)
EXTENDS Integers, Sequences, FiniteSets, TLC

VARIABLES rc, cb, ex, documents, inflight, resp, redact_call, sheet, requests, api_key

vars == <<rc, cb, ex, documents, inflight, resp, redact_call, sheet, requests, api_key>>

(***************************************************************************)
(* Bounds of the model.                                                    *)
(***************************************************************************)
\* largest block ID a raw model answer may name
MaxId == 2
\* total number of list entries in a raw assignments mapping
MaxMentions == 3
\* largest number of text blocks of an uploaded PDF
MaxBlocks == 2
\* total number of list entries in an answer to a classification call
MaxAnswerMentions == 2
\* number of documents the store may hold
MaxDocs == 2
\* number of requests that may wait for the model at the same time
MaxInflight == 2
\* number of requests the server receives
MaxRequests == 3
\* number of show records in an answer to an extraction call
MaxShows == 2
\* number of dates a show record lists
MaxPairs == 2

(***************************************************************************)
(* Python values.                                                          *)
(***************************************************************************)
\* a JSON number that is an integer
IntVal(n) == [t |-> "int", v |-> n, s |-> ""]
\* a JSON string
StrVal(str) == [t |-> "str", v |-> 0, s |-> str]

\* the decimal numerals int() accepts among the strings of the model
Numerals == {"0", "1", "2", "3", "4"}
NumeralValue(str) ==
    CASE str = "0" -> 0
      [] str = "1" -> 1
      [] str = "2" -> 2
      [] str = "3" -> 3
      [] str = "4" -> 4

\* a coercion that accepts integers only
IntCoercibleIntsOnly(x) == x.t = "int"
\* int(i) returns a value (otherwise it raises ValueError)
IntCoercible(x) == x.t = "int" \/ (x.t = "str" /\ x.s \in Numerals)
\* int(i)
PyInt(x) == IF x.t = "int" THEN x.v ELSE NumeralValue(x.s)

Range(seq) == {seq[i] : i \in 1..Len(seq)}

\* dict.get(key, default)
DictGet(d, key, default) == IF key \in DOMAIN d THEN d[key] ELSE default
\* d[key] = value
DictSet(d, key, value) ==
    [k \in (DOMAIN d) \cup {key} |-> IF k = key THEN value ELSE d[k]]
\* d.setdefault(key, default)
SetDefault(d, key, default) == IF key \in DOMAIN d THEN d ELSE DictSet(d, key, default)
\* {}
EmptyDict == [k \in {} |-> <<>>]

\* sorted(s) of a set of integers
RECURSIVE sorted(_)
sorted(s) ==
    IF s = {} THEN <<>>
    ELSE LET m == CHOOSE x \in s : \A y \in s : x <= y
         IN  <<m>> \o sorted(s \ {m})

(***************************************************************************)
(* ClassifyResponse, and the outcome of a call that may raise.             *)
(***************************************************************************)
ClassifyResponse(shows, assignments) ==
    [exc |-> "none", shows |-> shows, assignments |-> assignments]
Raised(exc) == [exc |-> exc, shows |-> <<>>, assignments |-> EmptyDict]
\* no call made yet
NoResult == Raised("pending")

(***************************************************************************)
(* _validate_classification                                                *)
(***************************************************************************)
\* lines 111-113: assignments[key] = [int(i) for i in ids]
CoerceAssignments(assignments) ==
    [key \in DOMAIN assignments |->
        [i \in 1..Len(assignments[key]) |-> PyInt(assignments[key][i])]]

\* line 114: assigned_ids.update(assignments[key]) over all keys
AssignedIds(assignments) == UNION {Range(assignments[key]) : key \in DOMAIN assignments}

\* a repair that replaces the list of UNCLASSIFIED
CompletenessRepairOverwrite(assignments, assigned_ids, all_block_ids) ==
    LET missing == all_block_ids \ assigned_ids
    IN  IF missing # {}
        THEN DictSet(assignments, "UNCLASSIFIED", sorted(missing))
        ELSE assignments
\* a repair that puts the missing IDs in front
CompletenessRepairPrepend(assignments, assigned_ids, all_block_ids) ==
    LET missing == all_block_ids \ assigned_ids
    IN  IF missing # {}
        THEN DictSet(assignments, "UNCLASSIFIED",
                     sorted(missing) \o DictGet(assignments, "UNCLASSIFIED", <<>>))
        ELSE assignments
\* lines 117-121: missing IDs go to the end of UNCLASSIFIED
CompletenessRepair(assignments, assigned_ids, all_block_ids) ==
    LET missing == all_block_ids \ assigned_ids
    IN  IF missing # {}
        THEN DictSet(assignments, "UNCLASSIFIED",
                     DictGet(assignments, "UNCLASSIFIED", <<>>) \o sorted(missing))
        ELSE assignments

\* a filter that goes through a set and so loses the order of the list
SoundnessRepairSorted(assignments, assigned_ids, all_block_ids) ==
    LET extra == assigned_ids \ all_block_ids
    IN  IF extra # {}
        THEN [key \in DOMAIN assignments |->
                 sorted(Range(assignments[key]) \cap all_block_ids)]
        ELSE assignments
\* a filter that lets the unknown IDs through
SoundnessRepairNone(assignments, assigned_ids, all_block_ids) == assignments
\* lines 124-128: unknown IDs are filtered out of every list
SoundnessRepair(assignments, assigned_ids, all_block_ids) ==
    LET extra == assigned_ids \ all_block_ids
    IN  IF extra # {}
        THEN [key \in DOMAIN assignments |->
                 SelectSeq(assignments[key], LAMBDA i : i \in all_block_ids)]
        ELSE assignments

\* a normalization that assigns the reserved keys instead of defaulting them
KeyNormalizationAssign(assignments) ==
    DictSet(DictSet(DictSet(assignments, "GLOBAL", <<>>),
                    "GLOBAL_REDACT", <<>>),
            "UNCLASSIFIED", <<>>)
\* lines 131-133: the reserved keys exist
KeyNormalization(assignments) ==
    SetDefault(SetDefault(SetDefault(assignments, "GLOBAL", <<>>),
                          "GLOBAL_REDACT", <<>>),
               "UNCLASSIFIED", <<>>)

\* a parsed JSON value: an object (a dict) or something else
JsonObject(d) == [kind |-> "object", d |-> d]
JsonArray == [kind |-> "array", d |-> EmptyDict]

_validate_classification(classification, all_block_ids) ==
    IF classification.kind # "object"
    THEN Raised("AttributeError")
    ELSE
    LET shows == DictGet(classification.d, "shows", <<>>)
        raw == DictGet(classification.d, "assignments", EmptyDict)
    IN  IF \E key \in DOMAIN raw : \E i \in 1..Len(raw[key]) : ~IntCoercible(raw[key][i])
        THEN Raised("ValueError")
        ELSE
        LET coerced == CoerceAssignments(raw)
            assigned_ids == AssignedIds(coerced)
            completed == CompletenessRepair(coerced, assigned_ids, all_block_ids)
            filtered == SoundnessRepair(completed, assigned_ids, all_block_ids)
        IN  ClassifyResponse(shows, KeyNormalization(filtered))

(***************************************************************************)
(* Raw model answers: the parsed JSON handed to _validate_classification.  *)
(***************************************************************************)
ShowNames == {"A", "B"}
Reserved == {"GLOBAL", "GLOBAL_REDACT", "UNCLASSIFIED"}

\* values a category list of the answer may hold
RawVals == {IntVal(n) : n \in 0..MaxId} \cup {StrVal("1"), StrVal("x")}

\* number of list entries of an assignments object
RECURSIVE Entries(_)
Entries(assignments) ==
    IF DOMAIN assignments = {} THEN 0
    ELSE LET key == CHOOSE k \in DOMAIN assignments : TRUE
         IN  Len(assignments[key])
             + Entries([k \in (DOMAIN assignments) \ {key} |-> assignments[k]])

\* the answer with one more value at the end of a category's list
WithMention(classification, key, value) ==
    LET a == classification.d["assignments"]
    IN  [classification EXCEPT
            !.d = DictSet(classification.d, "assignments",
                          DictSet(a, key, Append(DictGet(a, key, <<>>), value)))]

\* answers before any category is listed
BareClassifications ==
    {JsonArray}
    \cup {JsonObject(EmptyDict)}
    \cup {JsonObject([k \in {"shows"} |-> <<"A">>])}
    \cup {JsonObject([k \in {"assignments"} |-> EmptyDict])}
    \cup {JsonObject([k \in {"shows", "assignments"} |->
                         IF k = "shows" THEN <<"B", "A">> ELSE EmptyDict])}

(***************************************************************************)
(* Response text of the model. A text is a sequence of tokens: the fence   *)
(* marker, a word (\w+), a newline, a blank, or a payload. A payload is a  *)
(* stretch of text that begins with "{" or "[", holds no fence marker and  *)
(* no whitespace at its ends; it is a JSON document or a truncated one.    *)
(***************************************************************************)
NoJson == [kind |-> "none", d |-> EmptyDict]
\* what json.loads cannot decode
NotJson == [kind |-> "invalid", d |-> EmptyDict]

Fence == [c |-> "fence", json |-> NoJson]
Word(w) == [c |-> w, json |-> NoJson]
NL == [c |-> "nl", json |-> NoJson]
SP == [c |-> "sp", json |-> NoJson]
Payload(json) == [c |-> "text", json |-> json]

IsSpace(tok) == tok.c \in {"nl", "sp"}
IsWord(tok) == tok.c \in {"json", "python"}

\* str.lstrip()
RECURSIVE lstrip(_)
lstrip(text) ==
    IF text # <<>> /\ IsSpace(Head(text)) THEN lstrip(Tail(text)) ELSE text
\* str.rstrip()
RECURSIVE rstrip(_)
rstrip(text) ==
    IF text # <<>> /\ IsSpace(text[Len(text)])
    THEN rstrip(SubSeq(text, 1, Len(text) - 1))
    ELSE text
\* str.strip()
strip(text) == rstrip(lstrip(text))

\* line 26: the pattern ^<fence>(?:json)?\s*\n?(.*?)\n?<fence>\s*$ matches a stripped text
\* that starts with a fence exactly when another fence ends it
FenceMatch(text) == Len(text) >= 2 /\ text[Len(text)] = Fence

\* line 26, match.group(1): what lies between the opening fence (with "json" and
\* the whitespace after it) and the closing fence (with one newline before it)
FenceGroup(text) ==
    LET from == IF text[2] = Word("json") THEN 3 ELSE 2
        inner == lstrip(SubSeq(text, from, Len(text) - 1))
    IN  IF inner # <<>> /\ inner[Len(inner)] = NL
        THEN SubSeq(inner, 1, Len(inner) - 1)
        ELSE inner

\* line 30: re.sub(r"^<fence>\w*\n?", "", text)
SubLeadingFence(text) ==
    LET a == IF text # <<>> /\ Head(text) = Fence THEN Tail(text) ELSE text
        b == IF a # text /\ a # <<>> /\ IsWord(Head(a)) THEN Tail(a) ELSE a
        c == IF a # text /\ b # <<>> /\ Head(b) = NL THEN Tail(b) ELSE b
    IN  c

\* line 31: re.sub(r"\n?<fence>\s*$", "", text)
SubTrailingFence(text) ==
    LET t == rstrip(text)
    IN  IF t # <<>> /\ t[Len(t)] = Fence
        THEN IF Len(t) >= 2 /\ t[Len(t) - 1] = NL
             THEN SubSeq(t, 1, Len(t) - 2)
             ELSE SubSeq(t, 1, Len(t) - 1)
        ELSE text

\* _strip_json_from_response
_strip_json_from_response(raw) ==
    IF raw = <<>> \/ strip(raw) = <<>>
    THEN <<Payload([kind |-> "object", d |-> EmptyDict])>>
    ELSE LET text == strip(raw)
         IN  IF Head(text) = Fence
             THEN IF FenceMatch(text)
                  THEN strip(FenceGroup(text))
                  ELSE strip(SubTrailingFence(SubLeadingFence(text)))
             ELSE text

\* json.loads: whitespace around the one JSON document is allowed
JsonLoads(text) ==
    LET t == strip(text)
    IN  IF Len(t) = 1 /\ t[1].c = "text" THEN t[1].json ELSE NotJson

(***************************************************************************)
(* Text blocks and classify_blocks                                         *)
(***************************************************************************)
TextBlock(id) == [block_id |-> id, page_number |-> 1]
\* extract_blocks: sequential IDs from 0 in reading order
Blocks(n) == [i \in 1..n |-> TextBlock(i - 1)]

\* a fallback that lists no block
FallbackEmpty(all_block_ids) ==
    ClassifyResponse(<<>>, [key \in {"GLOBAL", "UNCLASSIFIED"} |-> <<>>])
\* lines 185-188: the result when the answer is not JSON
Fallback(all_block_ids) ==
    ClassifyResponse(<<>>, [key \in {"GLOBAL", "UNCLASSIFIED"} |->
                               IF key = "UNCLASSIFIED" THEN sorted(all_block_ids) ELSE <<>>])

\* the outcome of client.messages.create: a text, or an exception
ApiText(raw) == [ok |-> TRUE, raw |-> raw]
ApiError == [ok |-> FALSE, raw |-> <<>>]

\* a call that answers a failed reconciliation with the fallback result
classify_blocks_lenient(blocks, response) ==
    LET all_block_ids == {blocks[i].block_id : i \in 1..Len(blocks)}
    IN  IF ~response.ok
        THEN Raised("APIError")
        ELSE LET data == JsonLoads(_strip_json_from_response(response.raw))
             IN  IF data = NotJson \/ _validate_classification(data, all_block_ids).exc # "none"
                 THEN Fallback(all_block_ids)
                 ELSE _validate_classification(data, all_block_ids)
classify_blocks(blocks, response) ==
    LET all_block_ids == {blocks[i].block_id : i \in 1..Len(blocks)}
    IN  IF ~response.ok
        THEN Raised("APIError")
        ELSE LET data == JsonLoads(_strip_json_from_response(response.raw))
             IN  IF data = NotJson
                 THEN Fallback(all_block_ids)
                 ELSE _validate_classification(data, all_block_ids)

(***************************************************************************)
(* Answers to a classification call.                                       *)
(***************************************************************************)
AnswerKeys == ShowNames \cup {"GLOBAL", "GLOBAL_REDACT"}
AnswerVals == {IntVal(n) : n \in 0..MaxBlocks} \cup {StrVal("x")}

\* sequences of at most n elements of s
RECURSIVE SeqsUpTo(_, _)
SeqsUpTo(s, n) ==
    IF n = 0 THEN {<<>>}
    ELSE LET shorter == SeqsUpTo(s, n - 1)
         IN  shorter \cup {Append(q, x) : q \in {p \in shorter : Len(p) = n - 1}, x \in s}

\* the assignments object whose lists hold the mentioned values, in order
RECURSIVE FromMentions(_)
FromMentions(ms) ==
    IF ms = <<>> THEN EmptyDict
    ELSE LET rest == FromMentions(SubSeq(ms, 1, Len(ms) - 1))
             m == ms[Len(ms)]
         IN  DictSet(rest, m[1], Append(DictGet(rest, m[1], <<>>), m[2]))

\* the assignments objects of at most `mentions` list entries
AnswerAssignments(mentions) ==
    {FromMentions(ms) : ms \in SeqsUpTo(AnswerKeys \X AnswerVals, mentions)}

\* the JSON documents and truncated documents a response may carry
AnswerPayloads(mentions) ==
    {Payload(NotJson), Payload(JsonArray)}
    \cup {Payload(JsonObject([k \in {"shows", "assignments"} |->
                                 IF k = "shows" THEN <<"A", "B">> ELSE a]))
             : a \in AnswerAssignments(mentions)}

\* the texts that carry a payload: bare, fenced with or without a language tag,
\* with the closing fence cut off, with text before the fence
Wrappings(p) ==
    { <<p>>,
      <<NL, p, NL>>,
      <<Fence, Word("json"), NL, p, NL, Fence>>,
      <<Fence, NL, p, NL, Fence>>,
      <<Fence, Word("json"), SP, p, Fence, NL>>,
      <<Fence, Word("python"), NL, p, NL, Fence>>,
      <<Fence, Word("json"), NL, p>>,
      <<Fence, p, NL, Fence, SP, p>> }

ResponseTexts(mentions) ==
    {<<>>, <<SP, NL>>, <<Fence>>, <<Fence, Word("json"), Fence>>}
    \cup UNION {Wrappings(p) : p \in AnswerPayloads(mentions)}

ApiOutcomes(mentions) == {ApiError} \cup {ApiText(raw) : raw \in ResponseTexts(mentions)}

(***************************************************************************)
(* extract_contract_data: the rows of the show records of an answer.       *)
(* A show record holds its show-level fields (a dict of strings) and the   *)
(* values under insertion_dates, insertion_date_per_io and amount, each    *)
(* absent, a string or a list. An entry of insertion_dates is a dict       *)
(* (with date and amount, or without) or a bare string.                    *)
(***************************************************************************)
Absent == [t |-> "absent", s |-> "", items |-> <<>>]
JStr(str) == [t |-> "str", s |-> str, items |-> <<>>]
JList(items) == [t |-> "list", s |-> "", items |-> items]
\* an entry of insertion_dates: a dict, or a string
InsDict(d) == [t |-> "dict", s |-> "", d |-> d]
InsStr(str) == [t |-> "str", s |-> str, d |-> EmptyDict]

ShowLevelKeys ==
    {"podcast_booked", "agency", "advertiser", "type", "draft_required_yn",
     "impressions", "payment_terms", "requires_pixel_tracker_yn", "notes"}
\* lines 355-363: the defaults of item.get
DefaultOf(key) ==
    IF key \in {"draft_required_yn", "requires_pixel_tracker_yn"} THEN "N"
    ELSE IF key = "notes" THEN ""
    ELSE "Not specified"
\* lines 354-364: base
Base(item) == [key \in ShowLevelKeys |-> DictGet(item.fields, key, DefaultOf(key))]

\* not x, for a value that is absent (the default []), a string or a list
Falsy(x) == x.t = "absent" \/ (x.t = "str" /\ x.s = "") \/ (x.t = "list" /\ x.items = <<>>)

\* lines 369-374: the insertions of the legacy shape
LegacyInsertions(item) ==
    LET old_dates == item.insertion_date_per_io
        old_amount == IF item.amount = Absent THEN "Not specified" ELSE item.amount.s
        dates == IF old_dates.t = "str"
                 THEN IF old_dates.s # "" THEN <<old_dates.s>> ELSE <<"Not specified">>
                 ELSE IF old_dates.t = "list"
                 THEN [i \in 1..Len(old_dates.items) |-> old_dates.items[i].s]
                 ELSE <<>>
    IN  [i \in 1..Len(dates) |->
            InsDict([k \in {"date", "amount"} |-> IF k = "date" THEN dates[i] ELSE old_amount])]

\* a record without dates gives no row
InsertionsNoPlaceholder(item) ==
    IF ~Falsy(item.insertion_dates) THEN item.insertion_dates.items
    ELSE LegacyInsertions(item)
\* lines 366-376: insertions
Insertions(item) ==
    LET insertions == IF ~Falsy(item.insertion_dates)
                      THEN item.insertion_dates.items
                      ELSE LegacyInsertions(item)
    IN  IF insertions = <<>>
        THEN <<InsDict([k \in {"date", "amount"} |-> "Not specified"])>>
        ELSE insertions

\* lines 378-389: ShowData of one insertion
ShowData(ins, base) ==
    [insertion_date_per_io |-> IF ins.t = "dict" THEN DictGet(ins.d, "date", "Not specified")
                               ELSE ins.s,
     amount |-> IF ins.t = "dict" THEN DictGet(ins.d, "amount", "Not specified")
                ELSE "Not specified",
     base |-> base]

\* lines 353-389: the loop over show_list
RECURSIVE ExpandRows(_)
ExpandRows(show_list) ==
    IF show_list = <<>> THEN <<>>
    ELSE LET item == Head(show_list)
             insertions == Insertions(item)
         IN  [i \in 1..Len(insertions) |-> ShowData(insertions[i], Base(item))]
             \o ExpandRows(Tail(show_list))

\* the outcome of extract_contract_data: rows, or an exception
Rows(rows) == [exc |-> "none", rows |-> rows]
ExtractRaised(exc) == [exc |-> exc, rows |-> <<>>]
NoRows == ExtractRaised("pending")

extract_contract_data(blocks, classification, response) ==
    IF ~response.ok THEN ExtractRaised("APIError")
    ELSE IF response.raw = <<>> \/ strip(response.raw) = <<>> THEN ExtractRaised("ValueError")
    ELSE LET data == JsonLoads(_strip_json_from_response(response.raw))
         IN  IF data = NotJson THEN ExtractRaised("ValueError")
             ELSE IF data.kind # "object" THEN ExtractRaised("AttributeError")
             ELSE Rows(ExpandRows(DictGet(data.d, "shows", <<>>)))

\* a show record
Item(fields, insertion_dates, insertion_date_per_io, amount) ==
    [fields |-> fields, insertion_dates |-> insertion_dates,
     insertion_date_per_io |-> insertion_date_per_io, amount |-> amount]

\* the show-level fields of the i-th record of an answer
FieldsOf(i) ==
    IF i % 2 = 1
    THEN [k \in {"podcast_booked", "notes"} |-> IF k = "notes" THEN "n" ELSE "A"]
    ELSE [k \in {"podcast_booked"} |-> "B"]

\* the i-th record of an answer before any date is listed: in the shape of
\* today (with a legacy date next to insertion_dates), or in the legacy shape
BareItems(i) ==
    {Item(FieldsOf(i), JList(<<>>), JStr("d0"), Absent)}
    \cup {Item(FieldsOf(i), Absent, old_dates, old_amount) :
             old_dates \in {Absent, JStr(""), JStr("d1"), JList(<<>>)},
             old_amount \in {Absent, JStr("$1")}}

\* the entries insertion_dates may hold
InsertionEntries ==
    {InsDict([k \in {"date", "amount"} |-> IF k = "date" THEN "d1" ELSE "$1"]),
     InsDict(EmptyDict),
     InsStr("d2")}

\* no call of extract_contract_data under examination
NoExtract == [pc |-> "none", response |-> ApiError, show_list |-> <<>>, result |-> NoRows]

\* the spreadsheet: whether the header row is written, and the data rows
EmptySheet == [header |-> FALSE, rows |-> <<>>]

(***************************************************************************)
(* Specification of the reconciler alone: any raw answer, any ID set.      *)
(***************************************************************************)
ReconcileKeys == {"A"} \cup Reserved

\* no call of classify_blocks under examination
NoCall == [pc |-> "none", blocks |-> <<>>, response |-> ApiError, result |-> NoResult]

\* classification: None
None == Raised("None")
DocIds == 1..MaxDocs
Slots == 1..MaxInflight
\* a request slot that serves no request; a request takes the first such slot
Idle == [op |-> "idle", doc |-> 0, classification |-> None]
\* no response sent yet
NoResponse == [op |-> "none", doc |-> 0, show |-> "", status |-> 0, body |-> None]
\* redact_blocks was not called by the last request served
NotCalled == [called |-> FALSE, pdf_bytes |-> 0, keep_ids |-> {}, blocks_to_redact |-> <<>>]

\* an empty store, no request under way
InitStore ==
    /\ documents = <<>>
    /\ inflight = [s \in Slots |-> Idle]
    /\ resp = NoResponse
    /\ redact_call = NotCalled
    /\ sheet = EmptySheet
    /\ requests = 0

InitReconcile ==
    /\ rc \in [pc : {"answer"}, classification : BareClassifications,
               all_block_ids : SUBSET (0..MaxId), result : {NoResult}]
    /\ cb = NoCall
    /\ ex = NoExtract
    /\ InitStore
    /\ api_key = TRUE

\* the model's answer lists one more value under a category (answers that
\* name no shows stay without entries)
Mention ==
    /\ rc.pc = "answer"
    /\ rc.classification.kind = "object"
    /\ {"shows", "assignments"} \subseteq DOMAIN rc.classification.d
    /\ Entries(rc.classification.d["assignments"]) < MaxMentions
    /\ \E key \in ReconcileKeys, value \in RawVals :
          rc' = [rc EXCEPT !.classification = WithMention(rc.classification, key, value)]
    /\ UNCHANGED <<cb, ex, documents, inflight, resp, redact_call, sheet, requests, api_key>>

Reconcile ==
    /\ rc.pc = "answer"
    /\ rc' = [rc EXCEPT !.pc = "returned",
                        !.result = _validate_classification(rc.classification,
                                                           rc.all_block_ids)]
    /\ UNCHANGED <<cb, ex, documents, inflight, resp, redact_call, sheet, requests, api_key>>

NextReconcile == Mention \/ Reconcile

SpecReconcile == InitReconcile /\ [][NextReconcile]_vars

(***************************************************************************)
(* Specification of classify_blocks alone: any blocks, any response.       *)
(***************************************************************************)
NoReconcile ==
    [pc |-> "none", classification |-> JsonArray, all_block_ids |-> {}, result |-> NoResult]

InitClassify ==
    /\ rc = NoReconcile
    /\ cb \in [pc : {"await"}, blocks : {Blocks(n) : n \in 1..MaxBlocks},
               response : {ApiError}, result : {NoResult}]
    /\ ex = NoExtract
    /\ InitStore
    /\ api_key = TRUE

\* client.messages.create returns or raises, and classify_blocks runs to its end
ClassifyBlocks ==
    /\ cb.pc = "await"
    /\ \E response \in ApiOutcomes(MaxAnswerMentions) :
          cb' = [cb EXCEPT !.pc = "returned", !.response = response,
                           !.result = classify_blocks(cb.blocks, response)]
    /\ UNCHANGED <<rc, ex, documents, inflight, resp, redact_call, sheet, requests, api_key>>

NextClassify == ClassifyBlocks

SpecClassify == InitClassify /\ [][NextClassify]_vars

(***************************************************************************)
(* Specification of the row expansion alone: any list of show records.     *)
(***************************************************************************)
InitExpand ==
    /\ rc = NoReconcile
    /\ cb = NoCall
    /\ ex = [pc |-> "answer", response |-> ApiError, show_list |-> <<>>, result |-> NoRows]
    /\ InitStore
    /\ api_key = TRUE

\* the answer holds one more show record
AddShow ==
    /\ ex.pc = "answer"
    /\ Len(ex.show_list) < MaxShows
    /\ \E item \in BareItems(Len(ex.show_list) + 1) :
          ex' = [ex EXCEPT !.show_list = Append(ex.show_list, item)]
    /\ UNCHANGED <<rc, cb, documents, inflight, resp, redact_call, sheet, requests, api_key>>

\* the last show record lists one more entry under insertion_dates
AddInsertion ==
    /\ ex.pc = "answer"
    /\ ex.show_list # <<>>
    /\ LET n == Len(ex.show_list)
           insertions == ex.show_list[n].insertion_dates
       IN  /\ insertions.t = "list"
           /\ Len(insertions.items) < MaxPairs
           /\ \E ins \in InsertionEntries :
                 ex' = [ex EXCEPT !.show_list[n].insertion_dates =
                                      JList(Append(insertions.items, ins))]
    /\ UNCHANGED <<rc, cb, documents, inflight, resp, redact_call, sheet, requests, api_key>>

\* the last show record lists one more date under insertion_date_per_io
AddLegacyDate ==
    /\ ex.pc = "answer"
    /\ ex.show_list # <<>>
    /\ LET n == Len(ex.show_list)
           old_dates == ex.show_list[n].insertion_date_per_io
       IN  /\ old_dates.t = "list"
           /\ Len(old_dates.items) < MaxPairs
           /\ ex' = [ex EXCEPT !.show_list[n].insertion_date_per_io =
                                   JList(Append(old_dates.items, JStr("d1")))]
    /\ UNCHANGED <<rc, cb, documents, inflight, resp, redact_call, sheet, requests, api_key>>

\* lines 351-391 run over the show list
Expand ==
    /\ ex.pc = "answer"
    /\ ex' = [ex EXCEPT !.pc = "returned", !.result = Rows(ExpandRows(ex.show_list))]
    /\ UNCHANGED <<rc, cb, documents, inflight, resp, redact_call, sheet, requests, api_key>>

NextExpand == AddShow \/ AddInsertion \/ AddLegacyDate \/ Expand

SpecExpand == InitExpand /\ [][NextExpand]_vars

(***************************************************************************)
(* The document store and the endpoints.                                   *)
(***************************************************************************)
\* an uploaded file: empty, or a PDF with n text blocks
EmptyFile == [size |-> 0, text_blocks |-> 0]
Pdf(n) == [size |-> 1, text_blocks |-> n]
Uploads == {EmptyFile} \cup {Pdf(n) : n \in 0..MaxBlocks}
ContentTypes == {"application/pdf", "application/octet-stream", "text/plain"}

\* what the model may answer to a classification request of an endpoint
StoreOutcomes(mentions) ==
    {ApiError}
    \cup {ApiText(<<Fence, Word("json"), NL, p, NL, Fence>>) : p \in AnswerPayloads(mentions)}

\* an answer to a classification call that lists the given values
Answer(mentions) ==
    ApiText(<<Fence, Word("json"), NL,
              Payload(JsonObject([k \in {"shows", "assignments"} |->
                         IF k = "shows" THEN <<"A", "B">> ELSE FromMentions(mentions)])),
              NL, Fence>>)

\* what the model may answer to a classification call of a request, when
\* several requests are served: an error, a text cut off, a value that is not
\* an ID, an answer that misses block 0 and names an unknown block, an answer
\* that lists block 0 twice
EndpointOutcomes ==
    {ApiError,
     ApiText(<<Fence, Word("json"), NL, Payload(NotJson)>>),
     Answer(<<<<"A", IntVal(0)>>, <<"GLOBAL", StrVal("x")>>>>),
     Answer(<<<<"A", IntVal(1)>>, <<"B", IntVal(MaxBlocks)>>>>),
     Answer(<<<<"B", IntVal(1)>>, <<"B", IntVal(0)>>, <<"GLOBAL_REDACT", IntVal(0)>>>>)}

\* an answer to an extraction call that holds the given show records
ExtractAnswer(show_list) ==
    ApiText(<<Fence, Word("json"), NL,
              Payload(JsonObject([k \in {"shows"} |-> show_list])), NL, Fence>>)

\* what the model may answer to an extraction call: an error, nothing, a text
\* cut off, a JSON array, no show record, a record of two dates with a record
\* of none
ExtractOutcomes ==
    {ApiError,
     ApiText(<<NL>>),
     ApiText(<<Fence, Word("json"), NL, Payload(NotJson)>>),
     ApiText(<<Payload(JsonArray)>>),
     ExtractAnswer(<<>>),
     ExtractAnswer(<<Item(FieldsOf(1),
                          JList(<<InsDict([k \in {"date", "amount"} |->
                                              IF k = "date" THEN "d1" ELSE "$1"]),
                                  InsStr("d2")>>),
                          Absent, Absent),
                     Item(FieldsOf(2), Absent, Absent, Absent)>>)}

Response(op, doc, show, status, body) ==
    [op |-> op, doc |-> doc, show |-> show, status |-> status, body |-> body]

\* lines 100-113: the status upload_pdf answers with
UploadStatus(content_type, file) ==
    IF content_type \notin {"application/pdf", "application/octet-stream"} THEN 400
    ELSE IF file.size = 0 THEN 400
    ELSE IF Blocks(file.text_blocks) = <<>> THEN 422
    ELSE 200

\* POST /api/upload (a fresh document ID: the first one not in use)
upload_pdf(content_type, file) ==
    /\ requests < MaxRequests
    /\ IF UploadStatus(content_type, file) = 200
       THEN \E document_id \in DocIds \ DOMAIN documents :
               /\ \A other \in DocIds \ DOMAIN documents : document_id <= other
               /\ documents' = DictSet(documents, document_id,
                                       [pdf_bytes |-> file.text_blocks,
                                        blocks |-> Blocks(file.text_blocks),
                                        classification |-> None])
               /\ resp' = Response("upload", document_id, "", 200, None)
       ELSE /\ documents' = documents
            /\ resp' = Response("upload", 0, "", UploadStatus(content_type, file), None)
    /\ redact_call' = NotCalled
    /\ requests' = requests + 1
    /\ UNCHANGED <<rc, cb, ex, inflight, sheet, api_key>>

\* POST /api/classify, up to the call of the model (lines 140-151)
classify_document_begin(slot, document_id) ==
    /\ requests < MaxRequests
    /\ inflight[slot] = Idle
    /\ IF document_id \notin DOMAIN documents
       THEN /\ resp' = Response("classify", document_id, "", 404, None)
            /\ redact_call' = NotCalled
            /\ inflight' = inflight
       ELSE IF ~api_key
       THEN /\ resp' = Response("classify", document_id, "", 503, None)
            /\ redact_call' = NotCalled
            /\ inflight' = inflight
       ELSE /\ inflight' = [inflight EXCEPT ![slot] = [op |-> "classify", doc |-> document_id,
                                                       classification |-> None]]
            /\ UNCHANGED <<resp, redact_call>>
    /\ requests' = requests + 1
    /\ UNCHANGED <<rc, cb, ex, documents, sheet, api_key>>

\* a store that keeps the classification a document already has
StoreClassificationIfAbsent(docs, document_id, classification) ==
    IF docs[document_id].classification = None
    THEN [docs EXCEPT ![document_id].classification = classification]
    ELSE docs
\* doc["classification"] = classification (main.py lines 158 and 235)
StoreClassification(docs, document_id, classification) ==
    [docs EXCEPT ![document_id].classification = classification]

\* the call of classify_blocks a request made
Call(blocks, response, result) ==
    [pc |-> "returned", blocks |-> blocks, response |-> response, result |-> result]

\* POST /api/classify, from the model's answer on (lines 151-166)
classify_document_end(slot, response) ==
    /\ inflight[slot].op = "classify"
    /\ LET document_id == inflight[slot].doc
           classification == classify_blocks(documents[document_id].blocks, response)
       IN  /\ cb' = Call(documents[document_id].blocks, response, classification)
           /\ IF classification.exc # "none"
              THEN /\ resp' = Response("classify", document_id, "", 503, None)
                   /\ documents' = documents
              ELSE /\ documents' = StoreClassification(documents, document_id, classification)
                   /\ resp' = Response("classify", document_id, "", 200, classification)
    /\ inflight' = [inflight EXCEPT ![slot] = Idle]
    /\ redact_call' = NotCalled
    /\ UNCHANGED <<rc, ex, sheet, requests, api_key>>

\* a check that accepts any show of a classified document
RedactStatusAnyShow(document_id, selected_show) ==
    IF document_id \notin DOMAIN documents THEN 404
    ELSE IF documents[document_id].classification = None THEN 400
    ELSE 200
\* lines 173-188: the status redact_document answers with
RedactStatus(document_id, selected_show) ==
    IF document_id \notin DOMAIN documents THEN 404
    ELSE IF documents[document_id].classification = None THEN 400
    ELSE IF selected_show \notin Range(documents[document_id].classification.shows) THEN 400
    ELSE 200

\* a keep-set that also keeps the GLOBAL_REDACT blocks
KeepIdsWithGlobalRedact(classification, selected_show) ==
    Range(DictGet(classification.assignments, selected_show, <<>>))
    \cup Range(DictGet(classification.assignments, "GLOBAL", <<>>))
    \cup Range(DictGet(classification.assignments, "GLOBAL_REDACT", <<>>))
\* lines 192-194: the block IDs to keep
KeepIds(classification, selected_show) ==
    Range(DictGet(classification.assignments, selected_show, <<>>))
    \cup Range(DictGet(classification.assignments, "GLOBAL", <<>>))

\* line 197: the blocks handed to redact_blocks
BlocksToRedact(blocks, keep_ids) ==
    SelectSeq(blocks, LAMBDA b : b.block_id \notin keep_ids)

\* POST /api/redact
redact_document(document_id, selected_show) ==
    /\ requests < MaxRequests
    /\ IF RedactStatus(document_id, selected_show) = 200
       THEN LET doc == documents[document_id]
                keep_ids == KeepIds(doc.classification, selected_show)
            IN  redact_call' = [called |-> TRUE, pdf_bytes |-> doc.pdf_bytes,
                                keep_ids |-> keep_ids,
                                blocks_to_redact |-> BlocksToRedact(doc.blocks, keep_ids)]
       ELSE redact_call' = NotCalled
    /\ resp' = Response("redact", document_id, selected_show,
                        RedactStatus(document_id, selected_show), None)
    /\ requests' = requests + 1
    /\ UNCHANGED <<rc, cb, ex, documents, inflight, sheet, api_key>>

\* the status extract_to_sheets answers with once extract_contract_data is
\* back, also when it returned no row
ExtractStatusAnyRows(show_data) ==
    IF show_data.exc # "none" THEN 503 ELSE 200
\* lines 249-263: the status once extract_contract_data is back
ExtractStatus(show_data) ==
    IF show_data.exc # "none" THEN 503
    ELSE IF show_data.rows = <<>> THEN 422
    ELSE 200

\* sheets_service.append_rows: the number of worksheet.append_row calls it makes
AppendCalls(worksheet, rows) ==
    (IF worksheet = EmptySheet THEN 1 ELSE 0) + Len(rows)
\* sheets_service.append_rows, of which the first `calls` calls of
\* worksheet.append_row succeed: the header if the sheet is empty, then the rows
append_rows(worksheet, rows, calls) ==
    LET header == IF worksheet = EmptySheet THEN 1 ELSE 0
    IN  [header |-> worksheet.header \/ (header = 1 /\ calls >= 1),
         rows |-> worksheet.rows \o SubSeq(rows, 1, calls - header)]

\* POST /api/extract, up to the first call of the model (lines 222-250)
extract_to_sheets_begin(slot, document_id) ==
    /\ requests < MaxRequests
    /\ inflight[slot] = Idle
    /\ IF document_id \notin DOMAIN documents
       THEN /\ resp' = Response("extract", document_id, "", 404, None)
            /\ redact_call' = NotCalled
            /\ inflight' = inflight
       ELSE IF ~api_key
       THEN /\ resp' = Response("extract", document_id, "", 503, None)
            /\ redact_call' = NotCalled
            /\ inflight' = inflight
       ELSE IF documents[document_id].classification = None
       THEN /\ inflight' = [inflight EXCEPT ![slot] =
                               [op |-> "extract_classify", doc |-> document_id,
                                classification |-> None]]
            /\ UNCHANGED <<resp, redact_call>>
       ELSE /\ inflight' = [inflight EXCEPT ![slot] =
                               [op |-> "extract_data", doc |-> document_id,
                                classification |-> documents[document_id].classification]]
            /\ UNCHANGED <<resp, redact_call>>
    /\ requests' = requests + 1
    /\ UNCHANGED <<rc, cb, ex, documents, sheet, api_key>>

\* POST /api/extract, from the answer to its classification call up to the
\* extraction call (lines 233-250)
extract_to_sheets_classified(slot, response) ==
    /\ inflight[slot].op = "extract_classify"
    /\ LET document_id == inflight[slot].doc
           classification == classify_blocks(documents[document_id].blocks, response)
       IN  /\ cb' = Call(documents[document_id].blocks, response, classification)
           /\ IF classification.exc # "none"
              THEN /\ resp' = Response("extract", document_id, "", 503, None)
                   /\ redact_call' = NotCalled
                   /\ documents' = documents
                   /\ inflight' = [inflight EXCEPT ![slot] = Idle]
              ELSE /\ documents' = StoreClassification(documents, document_id, classification)
                   /\ inflight' = [inflight EXCEPT ![slot] =
                                      [op |-> "extract_data", doc |-> document_id,
                                       classification |-> classification]]
                   /\ UNCHANGED <<resp, redact_call>>
    /\ UNCHANGED <<rc, ex, sheet, requests, api_key>>

\* POST /api/extract, from the answer to the extraction call on (lines 250-316)
extract_to_sheets_end(slot, response) ==
    /\ inflight[slot].op = "extract_data"
    /\ LET document_id == inflight[slot].doc
           show_data == extract_contract_data(documents[document_id].blocks,
                                              inflight[slot].classification, response)
       IN  /\ ex' = [pc |-> "returned", response |-> response, show_list |-> <<>>,
                     result |-> show_data]
           /\ IF ExtractStatus(show_data) # 200
              THEN /\ sheet' = sheet
                   /\ resp' = Response("extract", document_id, "",
                                       ExtractStatus(show_data), None)
              ELSE \E calls \in 0..AppendCalls(sheet, show_data.rows) :
                      /\ sheet' = append_rows(sheet, show_data.rows, calls)
                      /\ resp' = Response("extract", document_id, "",
                                          IF calls = AppendCalls(sheet, show_data.rows)
                                          THEN 200 ELSE 503,
                                          None)
    /\ inflight' = [inflight EXCEPT ![slot] = Idle]
    /\ redact_call' = NotCalled
    /\ UNCHANGED <<rc, cb, documents, requests, api_key>>

\* the slot a new request is served in
FreeSlot(slot) == inflight[slot] = Idle /\ \A other \in Slots : inflight[other] = Idle => slot <= other

Init ==
    /\ rc = NoReconcile
    /\ cb = NoCall
    /\ ex = NoExtract
    /\ InitStore
    /\ api_key \in BOOLEAN

Next ==
    \/ \E content_type \in ContentTypes, file \in Uploads : upload_pdf(content_type, file)
    \/ \E slot \in Slots, document_id \in DocIds :
          FreeSlot(slot) /\ classify_document_begin(slot, document_id)
    \/ \E slot \in Slots, response \in EndpointOutcomes : classify_document_end(slot, response)
    \/ \E document_id \in DocIds, selected_show \in ShowNames \cup {"C"} :
          redact_document(document_id, selected_show)
    \/ \E slot \in Slots, document_id \in DocIds :
          FreeSlot(slot) /\ extract_to_sheets_begin(slot, document_id)
    \/ \E slot \in Slots, response \in EndpointOutcomes :
          extract_to_sheets_classified(slot, response)
    \/ \E slot \in Slots, response \in ExtractOutcomes : extract_to_sheets_end(slot, response)

Spec == Init /\ [][Next]_vars

(***************************************************************************)
(* Specification of redact_document alone: the store holds no document, or *)
(* one document as upload_pdf and classify_document leave it.              *)
(***************************************************************************)
\* what upload_pdf stores for a PDF of n text blocks, with a classification
Document(n, classification) ==
    [pdf_bytes |-> n, blocks |-> Blocks(n), classification |-> classification]

\* the classifications classify_document can store for a document of n blocks
ClassifyResults(n) ==
    {c \in {classify_blocks(Blocks(n), response) : response \in StoreOutcomes(MaxAnswerMentions)} :
        c.exc = "none"}

\* the documents of at most max_blocks text blocks the store can hold
StoredDocuments(max_blocks) ==
    UNION {{Document(n, None)} \cup {Document(n, c) : c \in ClassifyResults(n)}
              : n \in 1..max_blocks}

InitRedact ==
    /\ rc = NoReconcile
    /\ cb = NoCall
    /\ ex = NoExtract
    /\ documents \in {<<>>} \cup {<<doc>> : doc \in StoredDocuments(MaxBlocks)}
    /\ inflight = [s \in Slots |-> Idle]
    /\ resp = NoResponse
    /\ redact_call = NotCalled
    /\ sheet = EmptySheet
    /\ requests = 0
    /\ api_key = TRUE

NextRedact ==
    \E document_id \in DocIds, selected_show \in ShowNames \cup {"C"} :
        redact_document(document_id, selected_show)

SpecRedact == InitRedact /\ [][NextRedact]_vars

(***************************************************************************)
(* Properties of the reconciler (under SpecReconcile).                     *)
(***************************************************************************)
RcReturned == rc.pc = "returned"
RcOk == RcReturned /\ rc.result.exc = "none"
\* the raw assignments object of the answer under examination
RcRaw ==
    IF rc.classification.kind = "object"
    THEN DictGet(rc.classification.d, "assignments", EmptyDict)
    ELSE EmptyDict
\* integer-like: a JSON integer or a string that is a decimal numeral
IntegerLike(x) == x.t = "int" \/ (x.t = "str" /\ x.s \in {"0", "1", "2", "3", "4"})
RcIntegerLike == \A key \in DOMAIN RcRaw : \A i \in 1..Len(RcRaw[key]) : IntegerLike(RcRaw[key][i])
\* the raw lists as integers (of an answer whose entries are integer-like)
RcCoerced == CoerceAssignments(RcRaw)
RcMissing == rc.all_block_ids \ AssignedIds(RcCoerced)
RcExtra == AssignedIds(RcCoerced) \ rc.all_block_ids
\* the list with the IDs outside the full ID set left out
Valid(ids) == SelectSeq(ids, LAMBDA i : i \in rc.all_block_ids)
RcOut == rc.result.assignments

\* C1: after _validate_classification no block ID appears in more than one
\* category's list.
C1_PartitionExclusivity ==
    RcOk => \A k1 \in DOMAIN RcOut : \A k2 \in DOMAIN RcOut :
                k1 # k2 => Range(RcOut[k1]) \cap Range(RcOut[k2]) = {}

\* C2: after _validate_classification the union of all category lists is exactly
\* the full ID set: no valid ID is missing, no ID outside the set is present.
C2_PartitionCompleteness ==
    RcOk => UNION {Range(RcOut[key]) : key \in DOMAIN RcOut} = rc.all_block_ids

\* a reconciliation that had IDs to add and IDs to remove
C2_Witness == RcOk /\ RcMissing # {} /\ RcExtra # {}

\* C4 as stated: _validate_classification returns a usable result for every raw
\* classification value, also one whose lists hold values that are not
\* integer-like.
C4_NeverFails ==
    RcReturned => rc.result.exc = "none" /\ Reserved \subseteq DOMAIN RcOut

\* C4 as amended: _validate_classification returns a usable result (with the
\* reserved keys) exactly when the raw value is a JSON object whose category
\* lists hold only integer-like values, the shows and assignments fields being
\* free to be missing; a value that is not integer-like makes it raise ValueError.
C4_FailsOnlyOnMalformed ==
    RcReturned =>
        IF rc.classification.kind = "object" /\ RcIntegerLike
        THEN rc.result.exc = "none" /\ Reserved \subseteq DOMAIN RcOut
        ELSE IF rc.classification.kind = "object"
        THEN rc.result.exc = "ValueError"
        ELSE rc.result.exc = "AttributeError"

\* a call on an answer that lists a value that is not integer-like
C4_Witness ==
    /\ RcReturned
    /\ rc.classification.kind = "object"
    /\ ~RcIntegerLike
    /\ rc.result.exc = "ValueError"

\* C6: the IDs of the full set that no category lists are appended to
\* UNCLASSIFIED in ascending order, after the entries UNCLASSIFIED already had,
\* and no other category list gains an entry.
C6_CompletenessRepair ==
    RcOk =>
        LET existing == Valid(DictGet(RcCoerced, "UNCLASSIFIED", <<>>))
            unclassified == RcOut["UNCLASSIFIED"]
            from == Len(existing) + 1
        IN  /\ Len(unclassified) = Len(existing) + Cardinality(RcMissing)
            /\ SubSeq(unclassified, 1, Len(existing)) = existing
            /\ \A i \in from..Len(unclassified) : unclassified[i] \in RcMissing
            /\ \A i \in from..Len(unclassified) : \A j \in from..Len(unclassified) :
                  i < j => unclassified[i] < unclassified[j]
            /\ \A key \in (DOMAIN RcOut) \ {"UNCLASSIFIED"} :
                  /\ Len(RcOut[key]) <= Len(DictGet(RcCoerced, key, <<>>))
                  /\ Range(RcOut[key]) \subseteq Range(DictGet(RcCoerced, key, <<>>))

\* UNCLASSIFIED had an entry and two IDs were missing
C6_Witness ==
    /\ RcOk
    /\ Valid(DictGet(RcCoerced, "UNCLASSIFIED", <<>>)) # <<>>
    /\ Cardinality(RcMissing) >= 2

\* C7: every ID outside the full ID set is removed from every category list, and
\* each output list is the raw list restricted to the valid IDs, in the raw
\* order, UNCLASSIFIED alone being followed by the IDs that were missing.
C7_SoundnessRepair ==
    RcOk =>
        /\ \A key \in DOMAIN RcOut : Range(RcOut[key]) \subseteq rc.all_block_ids
        /\ \A key \in DOMAIN RcCoerced :
              LET kept == Valid(RcCoerced[key])
              IN  IF key = "UNCLASSIFIED"
                  THEN /\ Len(RcOut[key]) >= Len(kept)
                       /\ SubSeq(RcOut[key], 1, Len(kept)) = kept
                       /\ \A i \in (Len(kept) + 1)..Len(RcOut[key]) :
                             RcOut[key][i] \in RcMissing
                  ELSE RcOut[key] = kept

\* an unknown ID was removed from a list whose two remaining IDs are not in
\* ascending order
C7_Witness ==
    /\ RcOk
    /\ \E key \in (DOMAIN RcCoerced) \ {"UNCLASSIFIED"} :
          /\ Len(RcOut[key]) = 2
          /\ RcOut[key][1] > RcOut[key][2]
          /\ Len(RcCoerced[key]) > 2

\* the raw answer is already a complete, exclusive partition of the full ID
\* set: integers only, no ID under two categories, every ID of the set and no
\* other listed
RcPartition ==
    /\ rc.classification.kind = "object"
    /\ \A key \in DOMAIN RcRaw : \A i \in 1..Len(RcRaw[key]) : RcRaw[key][i].t = "int"
    /\ \A k1 \in DOMAIN RcRaw : \A k2 \in DOMAIN RcRaw :
          k1 # k2 => Range(RcCoerced[k1]) \cap Range(RcCoerced[k2]) = {}
    /\ AssignedIds(RcCoerced) = rc.all_block_ids
\* a returned result, read again as a raw answer
AsRaw(result) ==
    JsonObject([k \in {"shows", "assignments"} |->
        IF k = "shows" THEN result.shows
        ELSE [key \in DOMAIN result.assignments |->
                 [i \in 1..Len(result.assignments[key]) |->
                     IntVal(result.assignments[key][i])]]])

\* C11: reconciling a raw assignment that is already a complete, exclusive
\* partition of the full ID set returns the same shows and the same category
\* lists (same keys, same order), apart from absent reserved keys inserted with
\* empty lists; and reconciling any returned result again returns it unchanged.
C11_Idempotence ==
    RcOk =>
        /\ RcPartition =>
              /\ rc.result.shows = DictGet(rc.classification.d, "shows", <<>>)
              /\ DOMAIN RcOut = (DOMAIN RcCoerced) \cup Reserved
              /\ \A key \in DOMAIN RcCoerced : RcOut[key] = RcCoerced[key]
              /\ \A key \in Reserved \ DOMAIN RcCoerced : RcOut[key] = <<>>
        /\ _validate_classification(AsRaw(rc.result), rc.all_block_ids) = rc.result

\* a partition with a reserved key listed, a reserved key absent, and a list
\* that is not in ascending order
C11_Witness ==
    /\ RcOk
    /\ RcPartition
    /\ \E key \in Reserved \cap DOMAIN RcRaw : RcRaw[key] # <<>>
    /\ Reserved \ DOMAIN RcRaw # {}
    /\ \E key \in DOMAIN RcCoerced :
          Len(RcCoerced[key]) >= 2 /\ RcCoerced[key][1] > RcCoerced[key][2]

(***************************************************************************)
(* Properties of classify_blocks (under SpecClassify).                     *)
(***************************************************************************)
CbReturned == cb.pc = "returned"
CbIds == {cb.blocks[i].block_id : i \in 1..Len(cb.blocks)}
\* the response text, after fence stripping, is not parseable JSON
CbUnparseable ==
    cb.response.ok /\ JsonLoads(_strip_json_from_response(cb.response.raw)) = NotJson

\* C8: when the response text is not parseable JSON after fence stripping,
\* classify_blocks returns a result with no shows in which every block ID is
\* under UNCLASSIFIED and under no other category.
C8_UnparseableFallback ==
    (CbReturned /\ CbUnparseable) =>
        /\ cb.result.exc = "none"
        /\ cb.result.shows = <<>>
        /\ "UNCLASSIFIED" \in DOMAIN cb.result.assignments
        /\ Range(cb.result.assignments["UNCLASSIFIED"]) = CbIds
        /\ Len(cb.result.assignments["UNCLASSIFIED"]) = Cardinality(CbIds)
        /\ \A key \in (DOMAIN cb.result.assignments) \ {"UNCLASSIFIED"} :
              cb.result.assignments[key] = <<>>

\* a fenced answer that was cut off, for a document of two blocks
C8_Witness ==
    /\ CbReturned
    /\ CbUnparseable
    /\ Len(cb.blocks) >= 2
    /\ Len(cb.response.raw) >= 4
    /\ Head(cb.response.raw) = Fence

\* C10: every result classify_blocks returns, the fallback result included, has
\* the keys GLOBAL, UNCLASSIFIED and GLOBAL_REDACT.
C10_ReservedKeys ==
    (CbReturned /\ cb.result.exc = "none") =>
        Reserved \subseteq DOMAIN cb.result.assignments

\* the response is a JSON document in a fenced block: opening fence, no
\* language tag or one, newline, the document, newline, closing fence
CbFenced ==
    /\ cb.response.ok
    /\ LET raw == cb.response.raw
       IN  /\ Len(raw) \in {5, 6}
           /\ raw[1] = Fence
           /\ Len(raw) = 6 => IsWord(raw[2])
           /\ raw[Len(raw) - 3] = NL
           /\ raw[Len(raw) - 2].c = "text"
           /\ raw[Len(raw) - 2].json # NotJson
           /\ raw[Len(raw) - 1] = NL
           /\ raw[Len(raw)] = Fence

\* C12: for a valid JSON text wrapped in a fenced block, with no language tag
\* or with any language tag, _strip_json_from_response returns exactly the
\* JSON text.
C12_FenceRoundTrip ==
    (CbReturned /\ CbFenced) =>
        _strip_json_from_response(cb.response.raw)
            = <<cb.response.raw[Len(cb.response.raw) - 2]>>

(***************************************************************************)
(* Properties of the row expansion (under SpecExpand).                     *)
(***************************************************************************)
\* the number of date/amount pairs of a show record: the entries of
\* insertion_dates, or without any the dates of the legacy shape
Pairs(item) ==
    IF item.insertion_dates.t = "list" /\ item.insertion_dates.items # <<>>
    THEN Len(item.insertion_dates.items)
    ELSE IF item.insertion_date_per_io.t = "list" THEN Len(item.insertion_date_per_io.items)
    ELSE IF item.insertion_date_per_io.t = "str" /\ item.insertion_date_per_io.s # "" THEN 1
    ELSE 0
\* the number of rows a show record is to give
RowsOf(item) == IF Pairs(item) >= 1 THEN Pairs(item) ELSE 1
\* the number of rows the show records before the i-th are to give
RECURSIVE RowsBefore(_, _)
RowsBefore(show_list, i) ==
    IF i = 1 THEN 0 ELSE RowsBefore(show_list, i - 1) + RowsOf(show_list[i - 1])

RedactedIds ==
    {redact_call.blocks_to_redact[i].block_id : i \in 1..Len(redact_call.blocks_to_redact)}
\* the IDs a category of the classification lists
Assigned(classification, key) ==
    IF key \in DOMAIN classification.assignments
    THEN {classification.assignments[key][i] : i \in 1..Len(classification.assignments[key])}
    ELSE {}

\* C3: no block listed under another show, under UNCLASSIFIED or under
\* GLOBAL_REDACT is left out of the redact-set passed to redact_blocks.
C3_NoLeak ==
    redact_call.called =>
        LET classification == documents[resp.doc].classification
        IN  \A key \in (DOMAIN classification.assignments) \ {resp.show, "GLOBAL"} :
                Assigned(classification, key) \subseteq RedactedIds

\* C5: the keep-set is the IDs assigned to the selected show together with the
\* IDs assigned to GLOBAL, and the redact-set is the document's blocks whose ID
\* is not in the keep-set, each once.
C5_KeepSet ==
    redact_call.called =>
        LET doc == documents[resp.doc]
            all_ids == {doc.blocks[i].block_id : i \in 1..Len(doc.blocks)}
        IN  /\ redact_call.keep_ids =
                  Assigned(doc.classification, resp.show)
                  \cup Assigned(doc.classification, "GLOBAL")
            /\ RedactedIds = all_ids \ redact_call.keep_ids
            /\ Len(redact_call.blocks_to_redact) = Cardinality(RedactedIds)
            /\ redact_call.pdf_bytes = doc.pdf_bytes

\* a redaction that keeps a block of the show and redacts a GLOBAL_REDACT block
C5_Witness ==
    /\ redact_call.called
    /\ Assigned(documents[resp.doc].classification, resp.show) # {}
    /\ Assigned(documents[resp.doc].classification, "GLOBAL_REDACT") # {}
    /\ Assigned(documents[resp.doc].classification, "GLOBAL_REDACT")
          \cap redact_call.keep_ids = {}
    /\ redact_call.keep_ids # {}
    /\ RedactedIds # {}

\* the document exists, is classified, and the show is one of its shows
RedactPreconditions(document_id, selected_show) ==
    /\ document_id \in DOMAIN documents
    /\ documents[document_id].classification # None
    /\ \E i \in 1..Len(documents[document_id].classification.shows) :
          documents[document_id].classification.shows[i] = selected_show

\* C9: a redact request calls redact_blocks only when the document exists, is
\* classified and lists the selected show; otherwise it ends in a client-request
\* error (4xx); and it leaves the document store unchanged.
C9_RedactionPreconditions ==
    [][(resp'.op = "redact" /\ (resp' # resp \/ redact_call' # redact_call)) =>
          /\ documents' = documents
          /\ IF RedactPreconditions(resp'.doc, resp'.show)
             THEN redact_call'.called /\ resp'.status = 200
             ELSE ~redact_call'.called /\ resp'.status \in 400..499]_vars

\* a redact request for a show the classification does not list
C9_Witness ==
    /\ resp.op = "redact"
    /\ resp.status = 400
    /\ resp.doc \in DOMAIN documents
    /\ documents[resp.doc].classification # None
    /\ ~redact_call.called

(***************************************************************************)
(* Properties of the document store and of interleaved requests (under     *)
(* Spec).                                                                  *)
(***************************************************************************)
\* the block IDs the category lists of a classification hold
Classified(classification) ==
    UNION {Assigned(classification, key) : key \in DOMAIN classification.assignments}
\* the slot serves a request of the kind op in this step
Serves(slot, op) == inflight[slot].op = op /\ inflight'[slot] # inflight[slot]

\* C14: in every reachable state each document's stored classification is
\* absent, or its category lists together hold exactly the block IDs of the
\* document's stored blocks.
C14_StoredPartition ==
    \A d \in DOMAIN documents :
        \/ documents[d].classification = None
        \/ Classified(documents[d].classification)
               = {documents[d].blocks[i].block_id : i \in 1..Len(documents[d].blocks)}

\* an extract request has stored a classification that was repaired (a block
\* under UNCLASSIFIED next to the shows) and waits for the extraction
C14_Witness ==
    \E slot \in Slots :
        /\ inflight[slot].op = "extract_data"
        /\ documents[inflight[slot].doc].classification = inflight[slot].classification
        /\ inflight[slot].classification.shows # <<>>
        /\ Assigned(inflight[slot].classification, "UNCLASSIFIED") # {}
        /\ Len(documents[inflight[slot].doc].blocks) >= 2

\* C15: an extract request writes the classification field only to fill an
\* empty one: it never replaces a classification that is stored.
C15_ExtractFillsOnlyEmpty ==
    [][\A slot \in Slots :
          Serves(slot, "extract_classify") =>
              \/ documents' = documents
              \/ documents[inflight[slot].doc].classification = None]_vars

\* C16: a classify request that gets a result stores it whole, whatever was
\* stored before, so that of two interleaved requests on a document the one
\* that stores last determines the classification; and a document's entry
\* changes only in a step of a request on that document ID.
C16_LastWriteWins ==
    [][/\ \A slot \in Slots :
             Serves(slot, "classify") =>
                 LET d == inflight[slot].doc
                 IN  /\ cb'.blocks = documents[d].blocks
                     /\ cb'.result = classify_blocks(cb'.blocks, cb'.response)
                     /\ documents'[d].blocks = documents[d].blocks
                     /\ documents'[d].pdf_bytes = documents[d].pdf_bytes
                     /\ IF cb'.result.exc = "none"
                        THEN documents'[d].classification = cb'.result
                        ELSE documents'[d].classification = documents[d].classification
       /\ \A d \in DOMAIN documents :
             (d \in DOMAIN documents' /\ documents'[d] # documents[d]) =>
                 \E slot \in Slots :
                     /\ inflight[slot].doc = d
                     /\ Serves(slot, "classify") \/ Serves(slot, "extract_classify")]_vars

\* of two classify requests on one document the first has stored its result
\* and the second still waits for the model
C16_Witness ==
    \E slot \in Slots :
        /\ inflight[slot].op = "classify"
        /\ resp.op = "classify"
        /\ resp.status = 200
        /\ resp.doc = inflight[slot].doc
        /\ documents[resp.doc].classification = resp.body
        /\ requests = 3

\* the parsed answer of the call holds, in a category list, a value that
\* cannot be coerced to an integer, or the model call raised
CallFails(call) ==
    \/ ~call.response.ok
    \/ LET data == JsonLoads(_strip_json_from_response(call.response.raw))
       IN  /\ data.kind = "object"
           /\ "assignments" \in DOMAIN data.d
           /\ \E key \in DOMAIN data.d["assignments"] :
                 \E i \in 1..Len(data.d["assignments"][key]) :
                     ~IntegerLike(data.d["assignments"][key][i])

\* C17: when a category list of the parsed answer holds a value that cannot be
\* coerced to an integer, or the model call errors, the classify request ends
\* in an error without a result, and the store (the document's classification,
\* absent or present) is left as it was.
C17_FailedClassification ==
    [][\A slot \in Slots :
          (Serves(slot, "classify") /\ CallFails(cb')) =>
              /\ resp'.op = "classify"
              /\ resp'.doc = inflight[slot].doc
              /\ resp'.status \in 500..599
              /\ resp'.body = None
              /\ documents' = documents]_vars

\* a classify request failed on a value that is not an ID, for a document
\* that has a classification
C17_Witness ==
    /\ resp.op = "classify"
    /\ resp.status = 503
    /\ cb.pc = "returned"
    /\ cb.response.ok
    /\ CallFails(cb)
    /\ documents[resp.doc].classification # None

\* the extraction answer is empty or not parseable, the call raised otherwise,
\* or it returned no row
ExtractionFails(call) ==
    \/ ~call.response.ok
    \/ strip(call.response.raw) = <<>>
    \/ JsonLoads(_strip_json_from_response(call.response.raw)) = NotJson
    \/ call.result.exc # "none"
    \/ call.result.rows = <<>>

\* C18: the spreadsheet changes only in the step of an extract request whose
\* extract_contract_data returned a row list that is not empty; an extract
\* request whose extraction answer is empty or unparseable, or gives no row,
\* ends in an error and leaves the spreadsheet (rows and header) as it was.
C18_AppendAfterExtraction ==
    [][/\ sheet' # sheet =>
             /\ \E slot \in Slots : Serves(slot, "extract_data")
             /\ ex'.result.exc = "none"
             /\ ex'.result.rows # <<>>
       /\ \A slot \in Slots :
             (Serves(slot, "extract_data") /\ ExtractionFails(ex')) =>
                 /\ resp'.op = "extract"
                 /\ resp'.status \in 400..599
                 /\ sheet' = sheet]_vars

\* an extract request whose extraction returned no row ended in 422 with the
\* spreadsheet still empty
C18_Witness ==
    /\ resp.op = "extract"
    /\ resp.status = 422
    /\ ex.pc = "returned"
    /\ ex.result.exc = "none"
    /\ ex.result.rows = <<>>
    /\ sheet = EmptySheet

====
